---------------------------- MODULE Spec2Model ----------------------------
(***************************************************************************)
(* A model of the HyperLogLog sketch of src/hyperloglog/src/lib.rs.        *)
(*                                                                         *)
(* State: a small number of sketch objects (struct HyperLogLog), each      *)
(* either not yet constructed or a record with the struct's seven fields.  *)
(* Operations: new, from_template, insert, merge, cardinality.             *)
(*                                                                         *)
(* Number representations.  TLC integers are 32 bits wide, so              *)
(*   - a u64 (a hash value) is the sequence of its four 16-bit limbs;      *)
(*     shifts and masks are computed limb by limb;                         *)
(*   - an f64 is an exact rational [num, den] of arbitrary-precision       *)
(*     naturals (little-endian digit sequences).  The estimator's          *)
(*     arithmetic (product, quotient, sum, order, powi) is exact; ln is a  *)
(*     rational enclosure [lo, hi] of the real logarithm, exact at         *)
(*     ln(1) = 0.                                                          *)
(***************************************************************************)
EXTENDS Integers, Sequences, FiniteSets, TLC

VARIABLES
    sketch,     \* object -> the HyperLogLog struct, or NoSketch before construction
    inserted,   \* object -> the values whose hashes were folded into it (insert, merge)
    origin,     \* object -> "none", "new", or the object it was a template copy of
    call,       \* the last call made: [op, self, ...]; for insert, again tells
                \* whether the value had been inserted into self before
    ret,        \* what that call returned
    sip         \* the keyed hash: <<key0, key1, value>> -> u64

vars == <<sketch, inserted, origin, call, ret, sip>>

---------------------------------------------------------------------------
(* u64 *)

HashBits == 64

\* A u64 is the sequence <<l0, l1, l2, l3>> of its four 16-bit limbs, least
\* significant first.  U64 writes it most significant first, as in a literal.
U64(l3, l2, l1, l0) == <<l0, l1, l2, l3>>

Limb(s, k) == IF k < 4 THEN s[k + 1] ELSE 0

\* s >> n on a u64, for n < 64
Shr(s, n) ==
    LET q == n \div 16
        r == n % 16
        out(j) == (Limb(s, j + q) \div (2 ^ r))
                  + (Limb(s, j + q + 1) % (2 ^ r)) * (2 ^ (16 - r))
    IN  <<out(0), out(1), out(2), out(3)>>

\* s >>= 1
Shr1(s) ==
    << (s[1] \div 2) + (s[2] % 2) * (2 ^ 15),
       (s[2] \div 2) + (s[3] % 2) * (2 ^ 15),
       (s[3] \div 2) + (s[4] % 2) * (2 ^ 15),
       s[4] \div 2 >>

\* s != 0
NonZero(s) == \E j \in 1..4 : s[j] # 0

\* a & b on naturals
RECURSIVE BitAnd(_, _)
BitAnd(a, b) ==
    IF a = 0 \/ b = 0 THEN 0
    ELSE (a % 2) * (b % 2) + 2 * BitAnd(a \div 2, b \div 2)

\* x as usize & mask, for a mask below 2^31 (b_mask is at most 2^16 - 1):
\* only the low 31 bits of x can survive the mask.
UsizeAnd(x, mask) == BitAnd(x[1] + (2 ^ 16) * (x[2] % (2 ^ 15)), mask)

---------------------------------------------------------------------------
(* Arbitrary-precision naturals: little-endian digits, no high zero digit *)

BigBase == 2 ^ 14

RECURSIVE BigOfNat(_)
BigOfNat(n) == IF n = 0 THEN <<>> ELSE <<n % BigBase>> \o BigOfNat(n \div BigBase)

RECURSIVE BigTrim(_)
BigTrim(a) ==
    IF a = <<>> THEN <<>>
    ELSE IF a[Len(a)] = 0 THEN BigTrim(SubSeq(a, 1, Len(a) - 1))
    ELSE a

RECURSIVE BigAddC(_, _, _)
BigAddC(a, b, c) ==
    IF a = <<>> /\ b = <<>> THEN (IF c = 0 THEN <<>> ELSE <<c>>)
    ELSE LET x == IF a = <<>> THEN 0 ELSE Head(a)
             y == IF b = <<>> THEN 0 ELSE Head(b)
             t == x + y + c
         IN  <<t % BigBase>> \o
             BigAddC(IF a = <<>> THEN <<>> ELSE Tail(a),
                     IF b = <<>> THEN <<>> ELSE Tail(b),
                     t \div BigBase)

BigAdd(a, b) == BigTrim(BigAddC(a, b, 0))

RECURSIVE BigMulDigit(_, _, _)
BigMulDigit(a, d, c) ==
    IF a = <<>> THEN (IF c = 0 THEN <<>> ELSE <<c>>)
    ELSE LET t == Head(a) * d + c
         IN  <<t % BigBase>> \o BigMulDigit(Tail(a), d, t \div BigBase)

RECURSIVE BigMul(_, _)
BigMul(a, b) ==
    IF a = <<>> \/ b = <<>> THEN <<>>
    ELSE BigAdd(BigTrim(BigMulDigit(a, Head(b), 0)),
                LET r == BigMul(a, Tail(b)) IN IF r = <<>> THEN <<>> ELSE <<0>> \o r)

RECURSIVE BigLessFrom(_, _, _)
BigLessFrom(a, b, i) ==
    IF i = 0 THEN FALSE
    ELSE IF a[i] # b[i] THEN a[i] < b[i]
    ELSE BigLessFrom(a, b, i - 1)

BigLess(a, b) ==
    IF Len(a) # Len(b) THEN Len(a) < Len(b) ELSE BigLessFrom(a, b, Len(a))

BigLeq(a, b) == ~BigLess(b, a)

\* 2^k
BigPow2(k) == [i \in 1..((k \div 14) + 1) |-> IF i = (k \div 14) + 1 THEN 2 ^ (k % 14) ELSE 0]

---------------------------------------------------------------------------
(* f64 as an exact rational; den = <<>> is the result of a division by zero *)

Rat(n, d) == [num |-> n, den |-> d]

RatOfNat(n) == Rat(BigOfNat(n), BigOfNat(1))

\* a decimal literal n / 10^k written as n, 10^k
RatLit(n, tenPow) == Rat(BigOfNat(n), BigOfNat(tenPow))

RatMul(x, y) == Rat(BigMul(x.num, y.num), BigMul(x.den, y.den))

RatDiv(x, y) == Rat(BigMul(x.num, y.den), BigMul(x.den, y.num))

RatAdd(x, y) ==
    IF x.den = y.den THEN Rat(BigAdd(x.num, y.num), x.den)
    ELSE Rat(BigAdd(BigMul(x.num, y.den), BigMul(y.num, x.den)), BigMul(x.den, y.den))

RatLess(x, y) == BigLess(BigMul(x.num, y.den), BigMul(y.num, x.den))

RatIsZero(x) == x.num = <<>> /\ x.den # <<>>

RatDivByZero(x) == x.den = <<>>

RatSame(x, y) == BigMul(x.num, y.den) = BigMul(y.num, x.den)


RECURSIVE BigSubB(_, _, _)
BigSubB(a, b, borrow) ==
    IF a = <<>> THEN <<>>
    ELSE LET y == IF b = <<>> THEN 0 ELSE Head(b)
             t == Head(a) - y - borrow
         IN  <<t % BigBase>> \o
             BigSubB(Tail(a), IF b = <<>> THEN <<>> ELSE Tail(b), IF t < 0 THEN 1 ELSE 0)

\* a - b for a >= b
BigSub(a, b) == BigTrim(BigSubB(a, b, 0))

\* An f64 result known up to an enclosure: -hi <= value <= -lo when neg, else
\* lo <= value <= hi.  Point(x) is the exactly known value x.
Point(x) == [neg |-> FALSE, lo |-> x, hi |-> x]

\* f64::ln of q > 0.  With q = n/d >= 1 and x = (n - d)/n = k/n,
\*   ln q = -ln(1 - x) = x + x^2/2 + x^3/3 + ...,
\*   x + x^2/2 <= ln q <= x + x^2/2 + x^3 / (3 (1 - x)),
\* both written over the denominator 6 n^2 d; for q < 1, ln q = -ln(1/q).
LnAtLeastOne(n, d) ==
    LET k    == BigSub(n, d)
        two  == BigOfNat(2)
        three == BigOfNat(3)
        den  == BigMul(BigOfNat(6), BigMul(BigMul(n, n), d))
        low  == BigMul(BigMul(three, d), BigAdd(BigMul(two, BigMul(n, k)), BigMul(k, k)))
        rest == BigMul(two, BigMul(k, BigMul(k, k)))
    IN  [lo |-> Rat(low, den), hi |-> Rat(BigAdd(low, rest), den)]

Ln(q) ==
    LET n == q.num
        d == q.den
    IN  IF BigLeq(d, n)
        THEN [neg |-> FALSE] @@ LnAtLeastOne(n, d)
        ELSE [neg |-> TRUE] @@ LnAtLeastOne(d, n)

\* m * (an enclosure)
Scale(m, e) == [neg |-> e.neg, lo |-> RatMul(m, e.lo), hi |-> RatMul(m, e.hi)]

\* f64::round(v) == k, for k >= 1: half-way cases round away from zero, so
\* the value rounds to k iff k - 1/2 <= value < k + 1/2.
RoundsTo(v, k) ==
    /\ ~v.neg
    /\ ~RatLess(v.lo, Rat(BigOfNat(2 * k - 1), BigOfNat(2)))
    /\ RatLess(v.hi, Rat(BigOfNat(2 * k + 1), BigOfNat(2)))

\* the value is exactly 0.0
IsZero(v) == RatIsZero(v.lo) /\ RatIsZero(v.hi)

---------------------------------------------------------------------------
(* The free functions of lib.rs *)

MinB == 4
MaxB == 16

Ok(v) == [ok |-> TRUE, val |-> v]
Err(e) == [ok |-> FALSE, err |-> e]

get_alpha(b) ==
    IF b < MinB \/ b > MaxB
    THEN Err("b must be between 4 and 16")
    ELSE Ok(CASE b = 4 -> RatLit(673, 1000)
              [] b = 5 -> RatLit(697, 1000)
              [] b = 6 -> RatLit(709, 1000)
              [] OTHER -> RatDiv(RatLit(7213, 10000),
                                 RatAdd(RatOfNat(1),
                                        RatDiv(RatLit(1079, 1000), RatOfNat(2 ^ b)))))

\* u8 arithmetic: the wrapped value, and whether the operation overflowed
\* (a panic with overflow checks on, a wrap with them off).
U8(n, ovf) == [val |-> n % 256, ovf |-> ovf \/ n < 0 \/ n > 255]

\* The while loop of count_leading_zeros on its state st = [s, lz].
RECURSIVE count_leading_zeros_loop(_)
count_leading_zeros_loop(st) ==
    IF NonZero(st.s)
    THEN count_leading_zeros_loop([s  |-> Shr1(st.s),
                                   lz |-> U8(st.lz.val - 1, st.lz.ovf)])
    ELSE st.lz

count_leading_zeros(s, max_width) ==
    count_leading_zeros_loop([s |-> s, lz |-> U8(max_width, FALSE)])

\* Faulty variant: the position without the + 1.
position_without_plus_one(s, max_width) ==
    LET lz == count_leading_zeros(s, max_width)
    IN  U8(lz.val, lz.ovf)

position_of_leftmost_one_bit(s, max_width) ==
    LET lz == count_leading_zeros(s, max_width)
    IN  U8(lz.val + 1, lz.ovf)

\* Faulty variant: counts the registers that are not zero.
count_nonzero_registers(registers) ==
    Cardinality({i \in DOMAIN registers : registers[i] # 0})

count_zero_registers(registers) ==
    Cardinality({i \in DOMAIN registers : registers[i] = 0})

\* 2.0f64.powi(-x), over the denominator 2^HashBits when x <= HashBits
Powi2Neg(x) ==
    IF x <= HashBits
    THEN Rat(BigPow2(HashBits - x), BigPow2(HashBits))
    ELSE Rat(BigOfNat(1), BigPow2(x))

\* The sum of 2^-x over the registers, the equal terms taken together: the
\* terms are exact, so the order of the additions does not change the sum.
RECURSIVE SumPowers(_, _)
SumPowers(registers, xs) ==
    IF xs = {} THEN Rat(<<>>, BigPow2(HashBits))
    ELSE LET x == CHOOSE y \in xs : TRUE
             n == Cardinality({i \in DOMAIN registers : registers[i] = x})
         IN  RatAdd(RatMul(RatOfNat(n), Powi2Neg(x)), SumPowers(registers, xs \ {x}))

raw_hyperloglog_estimate(alpha, m, registers) ==
    LET sum == SumPowers(registers, {registers[i] : i \in DOMAIN registers})
    IN  RatDiv(RatMul(RatMul(alpha, m), m), sum)

\* Faulty variant: the ratio upside down.
linear_counting_inverted(m, number_of_zero_registers) ==
    Scale(m, Ln(RatDiv(number_of_zero_registers, m)))

linear_counting_estimate(m, number_of_zero_registers) ==
    Scale(m, Ln(RatDiv(m, number_of_zero_registers)))

estimate_cardinality(hll) ==
    LET m_f64 == RatOfNat(hll.m)
        est   == raw_hyperloglog_estimate(hll.alpha, m_f64, hll.registers)
    IN  IF RatLess(est, RatMul(RatDiv(RatOfNat(5), RatOfNat(2)), m_f64))
        THEN LET v == count_zero_registers(hll.registers)
             IN  IF v = 0
                 THEN [value |-> Point(est), estimator |-> "HyperLogLog"]
                 ELSE [value |-> linear_counting_estimate(m_f64, RatOfNat(v)),
                       estimator |-> "LinearCounting"]
        ELSE [value |-> Point(est), estimator |-> "HyperLogLog"]

---------------------------------------------------------------------------
(* impl HyperLogLog.  A Vec<u8> of length m is a sequence: the element at  *)
(* index j of the code is registers[j + 1].                                *)

\* vec![x; n]
RECURSIVE Repeat(_, _)
Repeat(x, n) ==
    IF n = 0 THEN <<>>
    ELSE IF n % 2 = 1 THEN <<x>> \o Repeat(x, n - 1)
    ELSE LET h == Repeat(x, n \div 2) IN h \o h

\* Faulty variant: the upper limit of the precision excluded.
new_rejects_sixteen(b, os_rng, key0, key1) ==
    IF b < MinB \/ b >= MaxB
    THEN Err("b must be between 4 and 16")
    ELSE LET m     == 2 ^ b
             alpha == get_alpha(b)
         IN  IF ~alpha.ok THEN alpha
             ELSE IF ~os_rng THEN Err("Failed to create and OS RNG")
             ELSE Ok([b           |-> b,
                      b_mask      |-> m - 1,
                      m           |-> m,
                      alpha       |-> alpha.val,
                      registers   |-> Repeat(0, m),
                      hasher_key0 |-> key0,
                      hasher_key1 |-> key1])

new(b, os_rng, key0, key1) ==
    IF b < MinB \/ b > MaxB
    THEN Err("b must be between 4 and 16")
    ELSE LET m     == 2 ^ b
             alpha == get_alpha(b)
         IN  IF ~alpha.ok THEN alpha
             ELSE IF ~os_rng THEN Err("Failed to create and OS RNG")
             ELSE Ok([b           |-> b,
                      b_mask      |-> m - 1,
                      m           |-> m,
                      alpha       |-> alpha.val,
                      registers   |-> Repeat(0, m),
                      hasher_key0 |-> key0,
                      hasher_key1 |-> key1])

\* SipHasher::new_with_keys(key0, key1) fed the value: a fixed function of
\* the two keys and the value.
hash(hll, value) == sip[<<hll.hasher_key0, hll.hasher_key1, value>>]

\* Faulty variant of insert: the register is replaced when it is larger.
insert_keeps_minimum(hll, x) ==
    LET j     == UsizeAnd(x, hll.b_mask)
        w     == Shr(x, hll.b)
        width == U8(HashBits - hll.b, FALSE)
        p1    == position_of_leftmost_one_bit(w, width.val)
        oob   == (j + 1) \notin DOMAIN hll.registers
    IN  [overflow      |-> width.ovf \/ p1.ovf,
         out_of_bounds |-> oob,
         hll           |-> IF ~oob /\ hll.registers[j + 1] > p1.val
                           THEN [hll EXCEPT !.registers[j + 1] = p1.val]
                           ELSE hll]

\* Faulty variant of insert: every insert adds 1 to the register.
insert_counts(hll, x) ==
    LET j     == UsizeAnd(x, hll.b_mask)
        w     == Shr(x, hll.b)
        width == U8(HashBits - hll.b, FALSE)
        p1    == position_of_leftmost_one_bit(w, width.val)
        oob   == (j + 1) \notin DOMAIN hll.registers
    IN  [overflow      |-> width.ovf \/ p1.ovf,
         out_of_bounds |-> oob,
         hll           |-> IF ~oob
                           THEN [hll EXCEPT !.registers[j + 1] = @ + 1]
                           ELSE hll]

\* Faulty variant of insert: the leading zeros of the whole hash are counted
\* within 64 - b bits.
insert_without_shift(hll, x) ==
    LET j     == UsizeAnd(x, hll.b_mask)
        w     == x
        width == U8(HashBits - hll.b, FALSE)
        p1    == position_of_leftmost_one_bit(w, width.val)
        oob   == (j + 1) \notin DOMAIN hll.registers
    IN  [overflow      |-> width.ovf \/ p1.ovf,
         out_of_bounds |-> oob,
         hll           |-> IF ~oob /\ hll.registers[j + 1] < p1.val
                           THEN [hll EXCEPT !.registers[j + 1] = p1.val]
                           ELSE hll]

\* insert on the hash x of the value.  A u8 overflow panics in a build with
\* overflow checks and wraps in one without, so the result is what the
\* wrapping build computes, with the two ways to panic told apart:
\* overflow (only with overflow checks) and out_of_bounds (always).
insert_hashed(hll, x) ==
    LET j     == UsizeAnd(x, hll.b_mask)
        w     == Shr(x, hll.b)
        width == U8(HashBits - hll.b, FALSE)
        p1    == position_of_leftmost_one_bit(w, width.val)
        oob   == (j + 1) \notin DOMAIN hll.registers
    IN  [overflow      |-> width.ovf \/ p1.ovf,
         out_of_bounds |-> oob,
         hll           |-> IF ~oob /\ hll.registers[j + 1] < p1.val
                           THEN [hll EXCEPT !.registers[j + 1] = p1.val]
                           ELSE hll]

insert(hll, value) == insert_hashed(hll, hash(hll, value))

cardinality(hll) == estimate_cardinality(hll).value

\* Faulty variant: the first seed word copied twice.
from_template_one_key(template) ==
    LET m == template.m
    IN  [b           |-> template.b,
         b_mask      |-> m - 1,
         m           |-> m,
         alpha       |-> template.alpha,
         registers   |-> Repeat(0, m),
         hasher_key0 |-> template.hasher_key0,
         hasher_key1 |-> template.hasher_key0]

from_template(template) ==
    LET m == template.m
    IN  [b           |-> template.b,
         b_mask      |-> m - 1,
         m           |-> m,
         alpha       |-> template.alpha,
         registers   |-> Repeat(0, m),
         hasher_key0 |-> template.hasher_key0,
         hasher_key1 |-> template.hasher_key1]

\* Faulty variant: the registers of other replace those of self.
merge_overwrites(self, other) ==
    IF /\ self.b = other.b
       /\ self.m = other.m
       /\ self.hasher_key0 = other.hasher_key0
       /\ self.hasher_key1 = other.hasher_key1
    THEN Ok([self EXCEPT !.registers =
                [i \in DOMAIN self.registers |->
                    IF i \in DOMAIN other.registers
                    THEN other.registers[i]
                    ELSE self.registers[i]]])
    ELSE Err("Specs does not match.")

\* Faulty variant: the second seed word is not compared.
merge_ignores_key1(self, other) ==
    IF /\ self.b = other.b
       /\ self.m = other.m
       /\ self.hasher_key0 = other.hasher_key0
    THEN Ok([self EXCEPT !.registers =
                [i \in DOMAIN self.registers |->
                    IF i \in DOMAIN other.registers /\ self.registers[i] < other.registers[i]
                    THEN other.registers[i]
                    ELSE self.registers[i]]])
    ELSE Err("Specs does not match.")

merge(self, other) ==
    IF /\ self.b = other.b
       /\ self.m = other.m
       /\ self.hasher_key0 = other.hasher_key0
       /\ self.hasher_key1 = other.hasher_key1
    THEN Ok([self EXCEPT !.registers =
                [i \in DOMAIN self.registers |->
                    IF i \in DOMAIN other.registers /\ self.registers[i] < other.registers[i]
                    THEN other.registers[i]
                    ELSE self.registers[i]]])
    ELSE Err("Specs does not match.")

---------------------------------------------------------------------------
(* The state machine *)

Objects == {"a", "b"}

NoSketch == [none |-> TRUE]

Built(o) == sketch[o] # NoSketch

NumValues == 2

Values == 1..NumValues

KeyWords == {0, 1}

\* Hash values that make the cases of insert happen for 4 and 5 index bits:
\* equal and different register indexes, the top bit set (rank 1), a
\* remainder of 1, and a remainder of 0.
HashSamples ==
    << U64(32768, 0, 0, 3),
       U64(0, 0, 0, 19),
       U64(0, 0, 0, 3),
       U64(65535, 65535, 65535, 65535),
       U64(0, 0, 0, 0),
       U64(0, 1, 0, 7),
       U64(16384, 0, 0, 3) >>

SampledSip ==
    [k \in KeyWords \X KeyWords \X Values |->
        HashSamples[((k[3] - 1 + 2 * k[1] + 3 * k[2]) % Len(HashSamples)) + 1]]

InitObjects ==
    /\ sketch = [o \in Objects |-> NoSketch]
    /\ inserted = [o \in Objects |-> {}]
    /\ origin = [o \in Objects |-> "none"]
    /\ call = [op |-> "none"]
    /\ ret = [kind |-> "none"]

Init == InitObjects /\ sip = SampledSip

\* In each action the call's result is bound once, by \E r \in {...}.
New(self, b, os_rng, key0, key1) ==
    /\ ~Built(self)
    /\ \E r \in {new(b, os_rng, key0, key1)} :
          /\ sketch' = IF r.ok THEN [sketch EXCEPT ![self] = r.val] ELSE sketch
          /\ origin' = IF r.ok THEN [origin EXCEPT ![self] = "new"] ELSE origin
          /\ ret' = IF r.ok THEN [kind |-> "Ok"] ELSE [kind |-> "Err", err |-> r.err]
    /\ call' = [op |-> "new", self |-> self, b |-> b, os_rng |-> os_rng]
    /\ UNCHANGED <<inserted, sip>>

FromTemplate(self, template) ==
    /\ self # template
    /\ ~Built(self)
    /\ Built(template)
    /\ sketch' = [sketch EXCEPT ![self] = from_template(sketch[template])]
    /\ origin' = [origin EXCEPT ![self] = template]
    /\ call' = [op |-> "from_template", self |-> self, template |-> template]
    /\ ret' = [kind |-> "Ok"]
    /\ UNCHANGED <<inserted, sip>>

\* What a call of insert can do: it panics on an index out of bounds, and on
\* a u8 overflow in a build with overflow checks; otherwise it returns.
InsertOutcomes(hll, value) ==
    LET r == insert(hll, value)
    IN  { IF r.out_of_bounds \/ (overflow_checks /\ r.overflow)
          THEN [panic |-> TRUE, hll |-> hll]
          ELSE [panic |-> FALSE, hll |-> r.hll] : overflow_checks \in BOOLEAN }

Insert(self, value) ==
    /\ Built(self)
    /\ \E r \in InsertOutcomes(sketch[self], value) :
          /\ sketch' = [sketch EXCEPT ![self] = r.hll]
          /\ inserted' = IF r.panic THEN inserted
                         ELSE [inserted EXCEPT ![self] = @ \cup {value}]
          /\ ret' = IF r.panic THEN [kind |-> "Panic"] ELSE [kind |-> "Unit"]
    /\ call' = [op |-> "insert", self |-> self, value |-> value,
                again |-> value \in inserted[self]]
    /\ UNCHANGED <<origin, sip>>

Merge(self, other) ==
    /\ self # other
    /\ Built(self)
    /\ Built(other)
    /\ \E r \in {merge(sketch[self], sketch[other])} :
          /\ sketch' = IF r.ok THEN [sketch EXCEPT ![self] = r.val] ELSE sketch
          /\ inserted' = IF r.ok THEN [inserted EXCEPT ![self] = @ \cup inserted[other]]
                         ELSE inserted
          /\ ret' = IF r.ok THEN [kind |-> "Ok"] ELSE [kind |-> "Err", err |-> r.err]
    /\ call' = [op |-> "merge", self |-> self, other |-> other]
    /\ UNCHANGED <<origin, sip>>

Estimate(self) ==
    /\ Built(self)
    /\ call' = [op |-> "cardinality", self |-> self]
    /\ ret' = [kind |-> "Estimate"] @@ estimate_cardinality(sketch[self])
    /\ UNCHANGED <<sketch, inserted, origin, sip>>

\* Precisions around both ends of the accepted range.
Precisions == {3, 4, 5, 17}

Next ==
    \/ \E self \in Objects, b \in Precisions, os_rng \in BOOLEAN,
          key0 \in KeyWords, key1 \in KeyWords : New(self, b, os_rng, key0, key1)
    \/ \E self \in Objects, template \in Objects : FromTemplate(self, template)
    \/ \E self \in Objects, value \in Values : Insert(self, value)
    \/ \E self \in Objects, other \in Objects : Merge(self, other)
    \/ \E self \in Objects : Estimate(self)

Spec == Init /\ [][Next]_vars

---------------------------------------------------------------------------
(* Construction at every precision a u8 can hold: object a is built by new, *)
(* object b is a template copy of it; one value is inserted.               *)

U8Max == 255

PrecisionNext ==
    \/ \E b \in 0..U8Max, os_rng \in BOOLEAN : New("a", b, os_rng, 0, 0)
    \/ FromTemplate("b", "a")
    \/ \E self \in Objects : Insert(self, 1)
    \/ \E self \in Objects : Estimate(self)

SpecPrecision == Init /\ [][PrecisionNext]_vars

---------------------------------------------------------------------------
(* tests::small_range: a sketch of precision 12 and three distinct items,  *)
(* inserted in any order and any number of times, under every assignment   *)
(* of the sample hash values to the items.                                 *)

TestB == 12

TestItems == {1, 2, 3}

\* For 12 index bits: two hashes of register 5, one of register 9 and one,
\* with remainder 0, of register 77.
SmallRangeHashes ==
    { U64(32768, 0, 0, 5),
      U64(0, 0, 0, 4101),
      U64(0, 0, 1, 9),
      U64(0, 0, 0, 77) }

SmallRangeInit ==
    /\ InitObjects
    /\ sip \in [{<<0, 0, v>> : v \in TestItems} -> SmallRangeHashes]

SmallRangeNext ==
    \/ \E os_rng \in BOOLEAN : New("a", TestB, os_rng, 0, 0)
    \/ \E value \in TestItems : Insert("a", value)
    \/ Estimate("a")

SpecSmallRange == SmallRangeInit /\ [][SmallRangeNext]_vars

---------------------------------------------------------------------------
(* Properties *)

Max(x, y) == IF x < y THEN y ELSE x

\* Bit i (weight 2^i) of the u64 h, read off its limbs.
Bit(h, i) == (h[(i \div 16) + 1] \div (2 ^ (i % 16))) % 2

\* The value of the low b bits of h.
RECURSIVE LowBits(_, _)
LowBits(h, b) == IF b = 0 THEN 0 ELSE LowBits(h, b - 1) + Bit(h, b - 1) * (2 ^ (b - 1))

\* Whether the bits of h above the low b bits are all 0.
RemainderIsZero(h, b) == \A j \in b..(HashBits - 1) : Bit(h, j) = 0

\* The number of zero bits of h from bit i down to bit b, before the first 1.
RECURSIVE ZerosFrom(_, _, _)
ZerosFrom(h, b, i) ==
    IF i < b \/ Bit(h, i) = 1 THEN 0 ELSE 1 + ZerosFrom(h, b, i - 1)

\* The number of leading zero bits of the 64 - b bits of h above the low b.
LeadingZeros(h, b) == ZerosFrom(h, b, HashBits - 1)

\* C1: new(p) fails, and builds nothing, for p < 4 and for p > 16; for p in
\* 4..16 with the OS random source available it succeeds with b = p,
\* m = 2^p, b_mask = 2^p - 1 and exactly 2^p registers, all zero.
C1_NewValidatesPrecision ==
    call.op = "new" =>
        LET p == call.b
            h == sketch[call.self]
        IN  /\ (p < 4 \/ p > 16) => (ret.kind = "Err" /\ ~Built(call.self))
            /\ (p >= 4 /\ p <= 16 /\ call.os_rng) =>
                  /\ ret.kind = "Ok"
                  /\ Built(call.self)
                  /\ h.b = p
                  /\ h.m = 2 ^ p
                  /\ h.b_mask = 2 ^ p - 1
                  /\ Len(h.registers) = 2 ^ p
                  /\ \A i \in 1..Len(h.registers) : h.registers[i] = 0

C1_Witness ==
    /\ call.op = "new"
    /\ call.b = 16
    /\ ret.kind = "Ok"
    /\ Len(sketch[call.self].registers) = 65536

\* The register index and the rank insert computes for a value.
IndexOf(hll, value) == UsizeAnd(hash(hll, value), hll.b_mask)

RankOf(hll, value) ==
    position_of_leftmost_one_bit(Shr(hash(hll, value), hll.b), HashBits - hll.b).val

MaxOf(ranks) == IF ranks = {} THEN 0 ELSE CHOOSE r \in ranks : \A q \in ranks : q <= r

RegistersAreMaxRanks ==
    \A o \in Objects :
        Built(o) =>
            \A i \in 0..(sketch[o].m - 1) :
                sketch[o].registers[i + 1] =
                    MaxOf({RankOf(sketch[o], v) :
                             v \in {u \in inserted[o] : IndexOf(sketch[o], u) = i}})

RegistersNeverDecrease ==
    \A o \in Objects :
        Built(o) =>
            /\ sketch'[o] # NoSketch
            /\ \A i \in DOMAIN sketch[o].registers :
                  sketch'[o].registers[i] >= sketch[o].registers[i]

\* C2: no register ever decreases, and each register holds the maximum rank
\* over the values folded into the sketch whose hash selects it (0 when there
\* is none), whatever the order of the inserts.
C2_RegisterMax == [](RegistersAreMaxRanks) /\ [][RegistersNeverDecrease]_vars

C2_Witness ==
    \E o \in Objects :
        /\ Built(o)
        /\ call.op = "insert"
        /\ call.self = o
        /\ \E v, w \in inserted[o] :
              /\ IndexOf(sketch[o], v) = IndexOf(sketch[o], w)
              /\ RankOf(sketch[o], v) < RankOf(sketch[o], w)
              /\ call.value = v

RECURSIVE InsertAll(_, _)
InsertAll(hll, values) ==
    IF values = {} THEN hll
    ELSE LET v == CHOOSE x \in values : TRUE
         IN  InsertAll(insert(hll, v).hll, values \ {v})

\* Whether after, the sketch self has become by merging other into it, holds
\* the elementwise maximum of the two register arrays and the registers (and
\* so the estimate) of a fresh compatible sketch given all the values.
MergedIsUnion(self, other, after, values) ==
    LET union == InsertAll(from_template(self), values)
        n     == Len(self.registers)
    IN  /\ Len(after.registers) = n
        /\ after.registers = [i \in 1..n |-> Max(self.registers[i], other.registers[i])]
        /\ after.registers = union.registers
        /\ estimate_cardinality(after) = estimate_cardinality(union)

\* C3: after a successful self.merge(other) the registers of self are the
\* elementwise maximum of the two register arrays, and equal those of a fresh
\* compatible sketch into which the values of both were inserted, so the two
\* give the same estimate.
C3_MergeIsUnion ==
    [][(call'.op = "merge" /\ ret'.kind = "Ok") =>
          MergedIsUnion(sketch[call'.self], sketch[call'.other], sketch'[call'.self],
                        inserted[call'.self] \cup inserted[call'.other])
      ]_vars

C3_Witness ==
    /\ call.op = "merge"
    /\ ret.kind = "Ok"
    /\ inserted[call.other] # {}
    /\ inserted[call.self] # inserted[call.other]
    /\ sketch[call.self].registers # sketch[call.other].registers

Compatible(x, y) ==
    /\ x.b = y.b
    /\ x.hasher_key0 = y.hasher_key0
    /\ x.hasher_key1 = y.hasher_key1

\* C4: a merge of sketches that differ in precision or in either seed word
\* returns an error and leaves both sketches as they were; a merge succeeds
\* only between sketches of equal precision and equal seed words, and never
\* changes other.
C4_MergeRejection ==
    [][call'.op = "merge" =>
          LET self  == call'.self
              other == call'.other
          IN  /\ ~Compatible(sketch[self], sketch[other]) =>
                    (ret'.kind = "Err" /\ sketch' = sketch)
              /\ ret'.kind = "Ok" => Compatible(sketch[self], sketch[other])
              /\ sketch'[other] = sketch[other]
      ]_vars

C4_Witness ==
    /\ call.op = "merge"
    /\ ret.kind = "Err"
    /\ sketch["a"].b = sketch["b"].b
    /\ sketch["a"].hasher_key0 = sketch["b"].hasher_key0
    /\ sketch["a"].hasher_key1 # sketch["b"].hasher_key1
    /\ inserted["a"] # {}
    /\ inserted["b"] # {}

InsertTwiceIsInsertOnce ==
    \A o \in Objects :
        Built(o) =>
            \A v \in Values :
                LET once == insert(sketch[o], v).hll
                IN  insert(once, v).hll = once

\* C5: inserting a value that was inserted before, directly after or after
\* other inserts, changes no register; inserting a value twice gives the
\* state that inserting it once gives.
C5_Idempotence ==
    /\ [](InsertTwiceIsInsertOnce)
    /\ [][(call'.op = "insert" /\ call'.again) => sketch' = sketch]_vars

C5_Witness ==
    /\ call.op = "insert"
    /\ call.again
    /\ \E w \in inserted[call.self] :
          /\ w # call.value
          /\ IndexOf(sketch[call.self], w) = IndexOf(sketch[call.self], call.value)
          /\ RankOf(sketch[call.self], w) # RankOf(sketch[call.self], call.value)

\* The registers the three test items select: the low 12 bits of their hashes.
TestIndexes == {LowBits(sip[<<0, 0, v>>], 12) : v \in TestItems}

C7_EmptyEstimatesZero ==
    (call.op = "cardinality" /\ inserted[call.self] = {}) =>
        LET h == sketch[call.self]
        IN  /\ h.b >= 4 /\ h.b <= 16
            /\ \A i \in 1..Len(h.registers) : h.registers[i] = 0
            /\ count_zero_registers(h.registers) = h.m
            /\ RatLess(raw_hyperloglog_estimate(h.alpha, RatOfNat(h.m), h.registers),
                       Rat(BigOfNat(5 * h.m), BigOfNat(2)))
            /\ ret.estimator = "LinearCounting"
            /\ IsZero(ret.value)
            /\ IsZero(cardinality(h))

C7_Witness ==
    /\ call.op = "cardinality"
    /\ call.self = "b"
    /\ origin["b"] = "a"
    /\ inserted["b"] = {}
    /\ sketch["b"].b = 16
    /\ IsZero(ret.value)

TemplateCopy ==
    LET new_ == sketch'[call'.self]
        old  == sketch[call'.template]
    IN  /\ new_.b = old.b
        /\ new_.m = old.m
        /\ new_.b_mask = old.b_mask
        /\ new_.alpha = old.alpha
        /\ new_.hasher_key0 = old.hasher_key0
        /\ new_.hasher_key1 = old.hasher_key1
        /\ Len(new_.registers) = old.m
        /\ \A i \in 1..Len(new_.registers) : new_.registers[i] = 0
        /\ sketch'[call'.template] = old

\* C8: from_template(t) returns a sketch with t's b, m, b_mask, alpha and
\* seed words and exactly m zero registers, leaves t unchanged, and a merge
\* between the copy and its template, in either direction and at any later
\* time, succeeds.
C8_CompatibleEmpty ==
    /\ [][call'.op = "from_template" => TemplateCopy]_vars
    /\ [][(/\ call'.op = "merge"
           /\ \/ origin[call'.self] = call'.other
              \/ origin[call'.other] = call'.self) => ret'.kind = "Ok"]_vars

C8_Witness ==
    /\ call.op = "merge"
    /\ ret.kind = "Ok"
    /\ origin[call.other] = call.self
    /\ inserted[call.other] # {}
    /\ sketch[call.self].hasher_key0 # sketch[call.self].hasher_key1

\* insert(value) took hll to after: the register selected by the low b bits
\* of the hash holds the maximum of its old value and the rank, the rank
\* being the leading zeros of the remainder plus 1, or, with capped, the
\* width when the remainder is 0.
InsertWrites(hll, after, value, capped) ==
    LET h     == hash(hll, value)
        width == 64 - hll.b
        zero  == RemainderIsZero(h, hll.b)
        rank  == IF capped /\ zero THEN width ELSE LeadingZeros(h, hll.b) + 1
        idx   == LowBits(h, hll.b)
    IN  /\ rank >= 1
        /\ rank <= (IF capped THEN width ELSE width + 1)
        /\ capped \/ (zero <=> rank = width + 1)
        /\ after.registers = [hll.registers EXCEPT ![idx + 1] = Max(@, rank)]

RegistersAtMost(n) ==
    \A o \in Objects :
        Built(o) => \A i \in 1..Len(sketch[o].registers) :
                        sketch[o].registers[i] <= n - sketch[o].b

\* C9 as claimed: insert writes to the register h & (2^b - 1) the maximum of
\* its value and the rank, where the rank of a nonzero remainder h >> b is its
\* number of leading zero bits within 64 - b bits plus 1, and the rank of a
\* zero remainder is 64 - b; the rank is in 1..64 - b and no register exceeds
\* 64 - b.
C9_RankCappedAtWidth ==
    /\ [](RegistersAtMost(64))
    /\ [][(call'.op = "insert" /\ ret'.kind = "Unit") =>
            InsertWrites(sketch[call'.self], sketch'[call'.self], call'.value, TRUE)]_vars

\* C9 as amended: the rank is the number of leading zero bits of the
\* remainder within 64 - b bits plus 1 also when the remainder is 0, where it
\* is 64 - b + 1; the rank is in 1..65 - b and no register exceeds 65 - b.
C9_RankIsLeadingZerosPlusOne ==
    /\ [](RegistersAtMost(65))
    /\ [][(call'.op = "insert" /\ ret'.kind = "Unit") =>
            InsertWrites(sketch[call'.self], sketch'[call'.self], call'.value, FALSE)]_vars

C9_Witness ==
    /\ call.op = "insert"
    /\ ret.kind = "Unit"
    /\ RemainderIsZero(hash(sketch[call.self], call.value), sketch[call.self].b)
    /\ LowBits(hash(sketch[call.self], call.value), sketch[call.self].b) = 3
    /\ sketch[call.self].registers[4] = 65 - sketch[call.self].b

\* Hashes at the ends of the 64-bit range.
ExtremeHashes ==
    { U64(65535, 65535, 65535, 65535), U64(32768, 0, 0, 0), U64(0, 0, 0, 65535),
      U64(0, 0, 0, 0) }

InsertIsTotal(hll) ==
    \A x \in ExtremeHashes :
        LET r == insert_hashed(hll, x)
        IN  /\ ~r.overflow
            /\ ~r.out_of_bounds
            /\ UsizeAnd(x, hll.b_mask) < Len(hll.registers)
            /\ \A i \in 1..Len(r.hll.registers) : r.hll.registers[i] <= 255

\* The harmonic sum of the registers is not 0.
SumIsPositive(hll) ==
    ~RatIsZero(SumPowers(hll.registers, {hll.registers[i] : i \in DOMAIN hll.registers}))

\* C10: in every reachable state no insert has panicked, an insert of any
\* hash would neither index out of bounds nor overflow a u8, the harmonic
\* sum is positive, and a cardinality() that has run divided by no zero and
\* took the linear-counting branch only with a zero register left.
C10_Totality ==
    /\ ret.kind # "Panic"
    /\ \A o \in Objects : Built(o) => (InsertIsTotal(sketch[o]) /\ SumIsPositive(sketch[o]))
    /\ call.op = "cardinality" =>
          /\ ~RatDivByZero(ret.value.lo)
          /\ ~RatDivByZero(ret.value.hi)
          /\ ret.estimator = "LinearCounting" =>
                count_zero_registers(sketch[call.self].registers) # 0

C10_Witness ==
    /\ call.op = "merge"
    /\ ret.kind = "Err"
    /\ \E o \in Objects :
          /\ \E i \in 1..Len(sketch[o].registers) : sketch[o].registers[i] = 1
          /\ \E i \in 1..Len(sketch[o].registers) : sketch[o].registers[i] = 65 - sketch[o].b

=============================================================================
